---- MODULE Spec2Model ----
(***************************************************************************)
(* A model of the nexmeet event bot: the Telegram chat front end           *)
(* (src/src/index.js), its session map, and the HTTP event routes          *)
(* (src/src/routes/events.js).                                             *)
(*                                                                         *)
(* Every handler is an async function.  It runs without interruption up to *)
(* each `await`, where it has just issued one external call (a chat send,  *)
(* a callback acknowledgement, a store query, an AI completion) and is     *)
(* suspended until that call is answered.  One step of the model is: the   *)
(* pending call of one handler is answered (it succeeds or fails), and the *)
(* handler runs on to its next await or to its end.  The pc of a handler   *)
(* names the call it is suspended on.                                      *)
(***************************************************************************)
EXTENDS Integers, Sequences, FiniteSets, TLC

\* ------------------------------------------------------------------ bounds
\* handlers that may be suspended at the same time
MaxHandlers == 2
\* rows of the store in the specification of the chat handlers
MaxRows == 1
\* rows of the store in the specification of the list operations: tables of
\* up to MaxMixedRows rows in any order, and of up to MaxListRows rows with
\* equal rows next to each other
MaxMixedRows == 3
MaxListRows == 6

\* the cap of the capped queries: .limit(5)
QueryLimit == 5

\* the length of a tick of the clock, in ms, and the last tick
TickMs == 43200000
MaxTicks == 2

\* rateLimit({ windowMs: 24 * 60 * 60 * 1000, max: 5, ... })
windowMs == 86400000
max == 5

\* ------------------------------------------------------------------ inputs
Chats == {101, 102}

\* A text is a sequence of symbols; a command word is one symbol.
Texts == { <<"d">>, <<"/start">>, <<"/about">>, <<"/ask", " ", "d">> }

\* callbackQuery.data: the five buttons of the menu, and any other value
Actions == { "active_hackathons", "past_events", "search_location",
             "search_category", "popular_events", "other" }

\* what the completion service may answer
AiOutputs == { <<"z">> }

\* readings of the clock, against the rows' event_enddate
Times == {0, 2}

RowA == [ id |-> 0, is_approved |-> TRUE,  event_location |-> <<"D">>,
          event_category |-> <<"D">>, event_description |-> <<"d">>,
          event_enddate |-> 1, event_likes |-> 1 ]
RowU == [ id |-> 0, is_approved |-> FALSE, event_location |-> <<"D">>,
          event_category |-> <<"D">>, event_description |-> <<"d">>,
          event_enddate |-> 1, event_likes |-> 2 ]
RowZ == [ id |-> 0, is_approved |-> TRUE,  event_location |-> <<"z">>,
          event_category |-> <<"z">>, event_description |-> <<"z">>,
          event_enddate |-> 3, event_likes |-> 0 ]
RowSet == { RowA, RowU, RowZ }

\* every content of the table event_details with at most n rows; a row's
\* position is its id and its created_at
Stores(n) ==
  UNION { { [i \in 1..k |-> [f[i] EXCEPT !.id = i]] : f \in [1..k -> RowSet] }
          : k \in 0..n }

\* the tables of at most n rows that hold a rows RowA, then u rows RowU, then
\* z rows RowZ
Batches(n) ==
  { [i \in 1..(a + u + z) |->
       [(IF i <= a THEN RowA ELSE IF i <= a + u THEN RowU ELSE RowZ)
          EXCEPT !.id = i]]
    : <<a, u, z>> \in { t \in (0..n) \X (0..n) \X (0..n) :
                          t[1] + t[2] + t[3] <= n } }

\* ------------------------------------------------------------------- state
VARIABLES
  userSessions,   \* the session map: chat id -> pending state, or NoEntry
  handlers,       \* the suspended handlers, by slot
  answered,       \* history: per chat, the text messages received since the
                  \* last selection that issued a search query
  last,           \* history: the step just taken
  limiter,        \* the request throttle's store: key -> hits and reset time
  clock,          \* the time, in ticks of TickMs
  served,         \* history: per key, the times of the requests of the last
                  \* windowMs that reached a route handler
  store           \* history: the table event_details as the step just taken
                  \* found it

vars == <<userSessions, handlers, answered, last, limiter, clock, served,
          store>>

\* the state of the HTTP side
http == <<limiter, clock, served, store>>

NoEntry == "none"
AWAITING_LOCATION == "AWAITING_LOCATION"
AWAITING_CATEGORY == "AWAITING_CATEGORY"

Slots == 1..MaxHandlers

Idle == [ kind |-> "idle", chat |-> 0, pc |-> "idle", state |-> NoEntry,
          text |-> <<>>, query |-> <<>>, action |-> "", ai |-> <<>>,
          events |-> <<>>,
          stale |-> FALSE, log |-> <<>> ]

\* a step: what was done (a message or a callback received, a handler
\* resumed, an HTTP request answered), and for an HTTP request the response
NoStep == [ op |-> "init", kind |-> "", chat |-> 0, pc |-> "", to |-> "",
            text |-> <<>>, action |-> "", prev |-> NoEntry,
            status |-> 0, body |-> <<>>, error |-> "" ]

Min(a, b) == IF a < b THEN a ELSE b

\* req.ip, as a number; the throttle's keys: a chat id taken from the request
\* body, or the address
Ips == {7}
Keys == {101} \cup Ips

\* a key the throttle has not counted yet
NoHits == [ hits |-> 0, resetTime |-> 0 ]

\* no query was answered by the step: nothing is known of the table
NoStore == [ up |-> TRUE, rows |-> <<>> ]

\* ----------------------------------------------------------------- strings
Lower(ch) == IF ch = "D" THEN "d" ELSE IF ch = "Z" THEN "z" ELSE ch

\* SQL LIKE without regard to case: % is any run of symbols, _ any one symbol
RECURSIVE ILike(_, _)
ILike(p, s) ==
  IF p = <<>> THEN s = <<>>
  ELSE IF Head(p) = "%"
       THEN ILike(Tail(p), s) \/ (s # <<>> /\ ILike(p, Tail(s)))
       ELSE /\ s # <<>>
            /\ (Head(p) = "_" \/ Lower(Head(p)) = Lower(Head(s)))
            /\ ILike(Tail(p), Tail(s))

\* the filter argument `%${text}%`
Pattern(text) == <<"%">> \o text \o <<"%">>

\* /\/start/ and /\/about/: the command word anywhere in the text
MatchesStart(text) == \E i \in 1..Len(text) : text[i] = "/start"
MatchesAbout(text) == \E i \in 1..Len(text) : text[i] = "/about"

\* /\/ask (.+)/: the first "/ask " that at least one symbol of the same line
\* follows; match[1] is the rest of that line
AskAt(text) ==
  { i \in 1..Len(text) : /\ text[i] = "/ask"
                         /\ i + 2 <= Len(text)
                         /\ text[i + 1] = " "
                         /\ text[i + 2] # "\n" }
MatchesAsk(text) == AskAt(text) # {}
RECURSIVE Line(_)
Line(s) == IF s = <<>> \/ Head(s) = "\n" THEN <<>>
           ELSE <<Head(s)>> \o Line(Tail(s))
AskQuery(text) ==
  LET i == CHOOSE j \in AskAt(text) : \A k \in AskAt(text) : j <= k
  IN Line(SubSeq(text, i + 2, Len(text)))

\* ------------------------------------------------------ the store's answers
\* The table is remote and other clients write it: each query is answered
\* from the content st the table has then.  Ascending(S) lists the ids S in
\* table order, OrderDesc(S, key) by key descending (table order among equal
\* keys); Rows gives the rows of a list of ids.
RECURSIVE Ascending(_)
Ascending(S) ==
  IF S = {} THEN <<>>
  ELSE LET m == CHOOSE i \in S : \A j \in S : i <= j
       IN <<m>> \o Ascending(S \ {m})

RECURSIVE OrderDesc(_, _)
OrderDesc(S, key) ==
  IF S = {} THEN <<>>
  ELSE LET m == CHOOSE i \in S :
                  \A j \in S : key[i] > key[j] \/ (key[i] = key[j] /\ i <= j)
       IN <<m>> \o OrderDesc(S \ {m}, key)

\* a mutant: a query without its .limit
NoLimit(rows, n) == rows

\* .limit(n)
Limit(rows, n) == SubSeq(rows, 1, Min(n, Len(rows)))

Ids(st) == 1..Len(st)

Rows(st, ids) == [ j \in 1..Len(ids) |-> st[ids[j]] ]

\* .textSearch("event_description", query): the store's own full-text match,
\* taken here as: every word symbol of the query occurs in the description
TextSearch(query, description) ==
  \A i \in 1..Len(query) :
     \/ query[i] = " "
     \/ \E j \in 1..Len(description) : Lower(description[j]) = Lower(query[i])

\* a mutant: a query without its approval filter
ApprovedOrNot(row) == TRUE

\* .eq("is_approved", true)
Approved(row) == row.is_approved = TRUE

\* handleActiveHackathons: .gt(event_enddate, now).eq(is_approved, true)
\*                         .order(created_at, descending)
ActiveQuery(st, now) ==
  Rows(st,
    OrderDesc({ i \in Ids(st) : st[i].event_enddate > now
                                /\ Approved(st[i]) },
              [i \in Ids(st) |-> i]))

\* handlePastEvents: .lt(event_enddate, now).eq(is_approved, true)
\*                   .order(event_enddate, descending).limit(5)
PastQuery(st, now) ==
  Rows(st,
    Limit(OrderDesc({ i \in Ids(st) : st[i].event_enddate < now
                                      /\ Approved(st[i]) },
                    [i \in Ids(st) |-> st[i].event_enddate]),
          QueryLimit))

\* handlePopularEvents: .eq(is_approved, true)
\*                      .order(event_likes, descending).limit(5)
PopularQuery(st) ==
  Rows(st,
    Limit(OrderDesc({ i \in Ids(st) : Approved(st[i]) },
                    [i \in Ids(st) |-> st[i].event_likes]),
          QueryLimit))

\* bot.on("text"): .ilike(event_location, `%${text}%`).eq(is_approved, true)
LocationQuery(st, text) ==
  Rows(st,
    Ascending({ i \in Ids(st) : ILike(Pattern(text), st[i].event_location)
                                /\ Approved(st[i]) }))

\* bot.on("text"): .ilike(event_category, `%${text}%`).eq(is_approved, true)
CategoryQuery(st, text) ==
  Rows(st,
    Ascending({ i \in Ids(st) : ILike(Pattern(text), st[i].event_category)
                                /\ Approved(st[i]) }))

\* /ask: .eq(is_approved, true).textSearch(event_description, query).limit(5)
AskSearch(st, query) ==
  Rows(st,
    Limit(Ascending({ i \in Ids(st) : Approved(st[i])
                         /\ TextSearch(query, st[i].event_description) }),
          QueryLimit))

\* The answers a query may get: the table is remote and other clients write
\* it, so each query is answered from the content the table has then, one of
\* `stores`.
AskQueries == { AskQuery(text) : text \in { t \in Texts : MatchesAsk(t) } }

Gateway(stores) ==
  [ location |-> [ text \in Texts |->
                     { LocationQuery(st, text) : st \in stores } ],
    category |-> [ text \in Texts |->
                     { CategoryQuery(st, text) : st \in stores } ],
    active   |-> { ActiveQuery(st, now) : st \in stores, now \in Times },
    past     |-> { PastQuery(st, now) : st \in stores, now \in Times },
    popular  |-> { PopularQuery(st) : st \in stores },
    ask      |-> [ query \in AskQueries \cup AiOutputs |->
                     { AskSearch(st, query) : st \in stores } ] ]

\* ---------------------------------------------------------------- handlers
\* one external call, as a handler's log keeps it
Call(call, what) == [ call |-> call, what |-> what, row |-> 0, arg |-> <<>> ]
Query(what, arg) == [ call |-> "query", what |-> what, row |-> 0, arg |-> arg ]
SendEvent(row) == [ call |-> "send", what |-> "event", row |-> row.id,
                    arg |-> <<>> ]

\* the handler goes on to its next await, having issued call e
Issue(r, pc, e) == [ r EXCEPT !.pc = pc, !.log = Append(@, e) ]

\* a mutant: the rows are sent from the last one
SendLast(r, rows, pc) ==
  Issue([r EXCEPT !.events = rows], pc, SendEvent(rows[Len(rows)]))

\* for (const event of events) await bot.sendMessage(chatId, message, ...):
\* the first of the rows left is sent
SendNext(r, rows, pc) ==
  Issue([r EXCEPT !.events = rows], pc, SendEvent(rows[1]))

\* the step just taken by handler r: from r.pc to `to`, with the entry of its
\* chat as it was before the step
Step(r, to) == [ op |-> "step", kind |-> r.kind, chat |-> r.chat, pc |-> r.pc,
                 to |-> to, text |-> <<>>, action |-> r.action,
                 prev |-> userSessions[r.chat], status |-> 0, body |-> <<>>,
               error |-> "" ]

\* handler h is suspended again, as r2
Suspend(h, r2) ==
  /\ handlers' = [handlers EXCEPT ![h] = r2]
  /\ last' = Step(handlers[h], r2.pc)

\* handler h ends: "done" when it returns, "rejected" when an error leaves it
End(h, how) ==
  /\ handlers' = [handlers EXCEPT ![h] = Idle]
  /\ last' = Step(handlers[h], how)

\* a mutant: the whole map is cleared
DeleteAll(c) == userSessions' = [k \in Chats |-> NoEntry]

\* userSessions.delete(chatId)
Delete(c) == userSessions' = [userSessions EXCEPT ![c] = NoEntry]

\* the handlers a message starts, in the order the library calls them: the
\* "text" listener first, then every onText pattern that matches; each runs
\* to its first await
TextHandler(c, text) ==
  [ Idle EXCEPT !.kind = "text", !.chat = c, !.pc = "t_status",
                !.state = userSessions[c], !.text = text,
                !.log = <<Call("send", "status")>> ]
StartHandler(c) ==
  [ Idle EXCEPT !.kind = "start", !.chat = c, !.pc = "s_welcome",
                !.log = <<Call("send", "welcome")>> ]
AboutHandler(c) ==
  [ Idle EXCEPT !.kind = "about", !.chat = c, !.pc = "b_about",
                !.log = <<Call("send", "about")>> ]
AskHandler(c, text) ==
  [ Idle EXCEPT !.kind = "ask", !.chat = c, !.pc = "a_processing",
                !.text = text, !.query = AskQuery(text),
                !.log = <<Call("send", "status")>> ]

\* a mutant: the text listener without `if (!session) return`
PendingAlways(c) == TRUE

\* const session = userSessions.get(chatId); if (!session) return;
Pending(c) == userSessions[c] # NoEntry

Started(c, text) ==
     (IF Pending(c) THEN <<TextHandler(c, text)>> ELSE <<>>)
  \o (IF MatchesStart(text) THEN <<StartHandler(c)>> ELSE <<>>)
  \o (IF MatchesAbout(text) THEN <<AboutHandler(c)>> ELSE <<>>)
  \o (IF MatchesAsk(text) THEN <<AskHandler(c, text)>> ELSE <<>>)

Free(H) == { h \in H : handlers[h].kind = "idle" }

\* the new handlers take the lowest free slots of H
Placed(H, new) ==
  [ h \in Slots |->
      LET k == Cardinality({ g \in Free(H) : g <= h })
      IN IF h \in Free(H) /\ k <= Len(new) THEN new[k] ELSE handlers[h] ]

\* A message with text arrives from chat c.
ReceiveMessage(H, c, text) ==
  LET new == Started(c, text) IN
  /\ Len(new) <= Cardinality(Free(H))
  /\ handlers' = Placed(H, new)
  /\ last' = [ op |-> "message", kind |-> "text", chat |-> c, pc |-> "",
               to |-> IF userSessions[c] = NoEntry THEN "ignored"
                      ELSE "t_status",
               text |-> text, action |-> "", prev |-> userSessions[c],
               status |-> 0, body |-> <<>>,
               error |-> "" ]
  /\ UNCHANGED <<userSessions, answered>>

\* bot.on("text"), from its first await on
TextStep(h, gw) ==
  LET r == handlers[h]
      c == r.chat
      Apologise == /\ Suspend(h, Issue(r, "t_apology", Call("send", "apology")))
                   /\ UNCHANGED <<userSessions, answered>>
      Found(rows) ==
        /\ IF rows = <<>>
           THEN Suspend(h, Issue(r, "t_empty", Call("send", "empty")))
           ELSE Suspend(h, Issue([r EXCEPT !.events = rows], "t_found",
                                 Call("send", "found")))
        /\ UNCHANGED <<userSessions, answered>>
  IN
  /\ r.kind = "text"
  /\ \/ /\ r.pc = "t_status"
        /\ \/ /\ Suspend(h, Issue(r, "t_query",
                            Query(IF r.state = AWAITING_LOCATION
                                  THEN "location" ELSE "category", r.text)))
              /\ answered' = [answered EXCEPT
                               ![c] = IF r.stale THEN @ ELSE Min(@ + 1, 2)]
              /\ UNCHANGED userSessions
           \/ Apologise
     \/ /\ r.pc = "t_query"
        /\ \/ \E rows \in IF r.state = AWAITING_LOCATION
                          THEN gw.location[r.text]
                          ELSE gw.category[r.text] : Found(rows)
           \/ Apologise
     \/ /\ r.pc = "t_empty"
        /\ \/ /\ Delete(c)
              /\ End(h, "done")
              /\ UNCHANGED answered
           \/ Apologise
     \/ /\ r.pc = "t_found"
        /\ \/ /\ Suspend(h, SendNext(r, r.events, "t_event"))
              /\ UNCHANGED <<userSessions, answered>>
           \/ Apologise
     \/ /\ r.pc = "t_event"
        /\ \/ /\ Len(r.events) > 1
              /\ Suspend(h, SendNext(r, Tail(r.events), "t_event"))
              /\ UNCHANGED <<userSessions, answered>>
           \/ /\ Len(r.events) = 1
              /\ Delete(c)
              /\ End(h, "done")
              /\ UNCHANGED answered
           \/ Apologise
     \/ /\ r.pc = "t_apology"
        /\ \/ /\ Delete(c)
              /\ End(h, "done")
              /\ UNCHANGED answered
           \/ /\ End(h, "rejected")
              /\ UNCHANGED <<userSessions, answered>>

\* A press of an inline button arrives from chat c: the handler issues
\* bot.answerCallbackQuery and waits.  (History: `state` keeps the entry the
\* chat had when the button was pressed; the handler does not read it.)
ReceiveCallback(H, c, action) ==
  /\ Free(H) # {}
  /\ handlers' = Placed(H, << [ Idle EXCEPT !.kind = "callback", !.chat = c,
                                  !.pc = "c_ack", !.action = action,
                                  !.state = userSessions[c],
                                  !.log = <<Call("ack", "")>> ] >>)
  /\ last' = [ op |-> "callback", kind |-> "callback", chat |-> c, pc |-> "",
               to |-> "c_ack", text |-> <<>>, action |-> action,
               prev |-> userSessions[c], status |-> 0, body |-> <<>>,
               error |-> "" ]
  /\ UNCHANGED <<userSessions, answered>>

\* a mutant: a selection that keeps the entry the chat already has
SetSessionKeepFirst(h, c, state) ==
  /\ userSessions' = [userSessions EXCEPT
                        ![c] = IF @ = NoEntry THEN state ELSE @]
  /\ answered' = [answered EXCEPT ![c] = 0]
  /\ handlers' = [handlers EXCEPT
                    ![h] = Issue(@, "c_prompt", Call("send", "prompt"))]
  /\ last' = Step(handlers[h], "c_prompt")

\* userSessions.set(chatId, { state }): the entry is overwritten.  (History:
\* the text handlers of the chat still suspended answer an older selection.)
SetSession(h, c, state) ==
  /\ userSessions' = [userSessions EXCEPT ![c] = state]
  /\ answered' = [answered EXCEPT ![c] = 0]
  /\ handlers' = [ g \in Slots |->
       IF g = h
       THEN Issue(handlers[h], "c_prompt", Call("send", "prompt"))
       ELSE IF handlers[g].kind = "text" /\ handlers[g].chat = c
            THEN [handlers[g] EXCEPT !.stale = TRUE]
            ELSE handlers[g] ]
  /\ last' = Step(handlers[h], "c_prompt")

\* a mutant: a catch block that only logs the error
CatchCallbackSilent(h) == End(h, "rejected")

\* catch (error) { ...; await bot.sendMessage(chatId, "Sorry, ...") }
CatchCallback(h) ==
  Suspend(h, Issue(handlers[h], "c_apology", Call("send", "apology")))

\* bot.on("callback_query"), from its first await on
CallbackStep(h) ==
  LET r == handlers[h]
      c == r.chat
      Apologise == CatchCallback(h)
  IN
  /\ r.kind = "callback"
  /\ \/ /\ r.pc = "c_ack"
        /\ \/ /\ r.action \in {"active_hackathons", "past_events",
                               "popular_events"}
              /\ Suspend(h, Issue(r, "c_status", Call("send", "status")))
              /\ UNCHANGED <<userSessions, answered>>
           \/ /\ r.action = "search_location"
              /\ SetSession(h, c, AWAITING_LOCATION)
           \/ /\ r.action = "search_category"
              /\ SetSession(h, c, AWAITING_CATEGORY)
           \/ /\ r.action \notin {"active_hackathons", "past_events",
                                  "popular_events", "search_location",
                                  "search_category"}
              /\ End(h, "done")
              /\ UNCHANGED <<userSessions, answered>>
           \/ /\ Apologise
              /\ UNCHANGED <<userSessions, answered>>
     \/ /\ r.pc = "c_status"
        /\ UNCHANGED <<userSessions, answered>>
        /\ \/ Suspend(h, Issue(r, "l_query",
                 Query(CASE r.action = "active_hackathons" -> "active"
                         [] r.action = "past_events" -> "past"
                         [] OTHER -> "popular", <<>>)))
           \/ Apologise
     \/ /\ r.pc = "c_prompt"
        /\ UNCHANGED <<userSessions, answered>>
        /\ \/ End(h, "done")
           \/ Apologise
     \/ /\ r.pc = "c_apology"
        /\ UNCHANGED <<userSessions, answered>>
        /\ \/ End(h, "done")
           \/ End(h, "rejected")

\* handleActiveHackathons, handlePastEvents, handlePopularEvents: the query,
\* the notice or the event blocks, and the helper's own apology.  An error of
\* that apology leaves the helper and reaches the catch of the callback
\* handler.
HelperStep(h, gw) ==
  LET r == handlers[h]
      Apologise == Suspend(h, Issue(r, "l_apology", Call("send", "apology")))
      Found(rows) ==
        IF rows = <<>>
        THEN Suspend(h, Issue(r, "l_empty", Call("send", "empty")))
        ELSE Suspend(h, SendNext(r, rows, "l_event"))
  IN
  /\ r.kind = "callback"
  /\ UNCHANGED <<userSessions, answered>>
  /\ \/ /\ r.pc = "l_query"
        /\ \/ \E rows \in CASE r.action = "active_hackathons" -> gw.active
                               [] r.action = "past_events" -> gw.past
                               [] OTHER -> gw.popular : Found(rows)
           \/ Apologise
     \/ /\ r.pc = "l_empty"
        /\ \/ End(h, "done")
           \/ Apologise
     \/ /\ r.pc = "l_event"
        /\ \/ /\ Len(r.events) > 1
              /\ Suspend(h, SendNext(r, Tail(r.events), "l_event"))
           \/ /\ Len(r.events) = 1
              /\ End(h, "done")
           \/ Apologise
     \/ /\ r.pc = "l_apology"
        /\ \/ End(h, "done")
           \/ CatchCallback(h)

\* bot.onText(/\/start/): the welcome with the menu, or the apology
StartStep(h) ==
  LET r == handlers[h] IN
  /\ r.kind = "start"
  /\ UNCHANGED <<userSessions, answered>>
  /\ \/ /\ r.pc = "s_welcome"
        /\ \/ End(h, "done")
           \/ Suspend(h, Issue(r, "s_apology", Call("send", "apology")))
     \/ /\ r.pc = "s_apology"
        /\ \/ End(h, "done")
           \/ End(h, "rejected")

\* bot.onText(/\/about/): the about text, or the apology
AboutStep(h) ==
  LET r == handlers[h] IN
  /\ r.kind = "about"
  /\ UNCHANGED <<userSessions, answered>>
  /\ \/ /\ r.pc = "b_about"
        /\ \/ End(h, "done")
           \/ Suspend(h, Issue(r, "b_apology", Call("send", "apology")))
     \/ /\ r.pc = "b_apology"
        /\ \/ End(h, "done")
           \/ End(h, "rejected")

\* a mutant: the search is given the interpretation of the AI
AskArgumentFromAi(r) == r.ai

\* .textSearch("event_description", query): query is match[1]
AskArgument(r) == r.query

\* bot.onText(/\/ask (.+)/), from its first await on
AskStep(h, gw) ==
  LET r == handlers[h]
      Apologise == Suspend(h, Issue(r, "a_apology", Call("send", "apology")))
  IN
  /\ r.kind = "ask"
  /\ UNCHANGED <<userSessions, answered>>
  /\ \/ /\ r.pc = "a_processing"
        /\ \/ Suspend(h, Issue(r, "a_ai", Call("ai", "")))
           \/ Apologise
     \/ /\ r.pc = "a_ai"
        /\ \/ \E content \in AiOutputs :
                 Suspend(h, Issue([r EXCEPT !.ai = content], "a_searching",
                                  Call("send", "status")))
           \/ Apologise
     \/ /\ r.pc = "a_searching"
        /\ \/ Suspend(h, Issue(r, "a_query", Query("text", AskArgument(r))))
           \/ Apologise
     \/ /\ r.pc = "a_query"
        /\ \/ \E rows \in gw.ask[AskArgument(r)] :
                 IF rows = <<>>
                 THEN Suspend(h, Issue(r, "a_empty", Call("send", "empty")))
                 ELSE Suspend(h, Issue([r EXCEPT !.events = rows], "a_found",
                                       Call("send", "found")))
           \/ Apologise
     \/ /\ r.pc = "a_empty"
        /\ \/ End(h, "done")
           \/ Apologise
     \/ /\ r.pc = "a_found"
        /\ \/ Suspend(h, SendNext(r, r.events, "a_event"))
           \/ Apologise
     \/ /\ r.pc = "a_event"
        /\ \/ /\ Len(r.events) > 1
              /\ Suspend(h, SendNext(r, Tail(r.events), "a_event"))
           \/ /\ Len(r.events) = 1
              /\ End(h, "done")
           \/ Apologise
     \/ /\ r.pc = "a_apology"
        /\ \/ End(h, "done")
           \/ End(h, "rejected")

\* ------------------------------------------------------ the chat front end
Init ==
  /\ userSessions = [c \in Chats |-> NoEntry]
  /\ handlers = [h \in Slots |-> Idle]
  /\ answered = [c \in Chats |-> 0]
  /\ last = NoStep
  /\ limiter = [k \in Keys |-> NoHits]
  /\ clock = 0
  /\ served = [k \in Keys |-> <<>>]
  /\ store = NoStore

\* free text, and the two buttons that start a search
FreeTexts == { text \in Texts : ~ MatchesStart(text) /\ ~ MatchesAbout(text)
                                /\ ~ MatchesAsk(text) }
SearchActions == { "search_location", "search_category" }

ChatStores == Stores(MaxRows)
ListStores == Stores(MaxMixedRows) \cup Batches(MaxListRows)

ChatGateway == Gateway(ChatStores)
ListGateway == Gateway(ListStores)

\* The session state machine: searches and their answers, from every chat,
\* with up to MaxHandlers handlers suspended at a time.
Next ==
  \/ /\ \E c \in Chats, text \in FreeTexts : ReceiveMessage(Slots, c, text)
     /\ UNCHANGED http
  \/ /\ \E c \in Chats, action \in SearchActions :
           ReceiveCallback(Slots, c, action)
     /\ UNCHANGED http
  \/ /\ \E h \in Slots : TextStep(h, ChatGateway)
     /\ UNCHANGED http
  \/ /\ \E h \in Slots : CallbackStep(h)
     /\ UNCHANGED http

Spec == Init /\ [][Next]_vars

\* ---------------------------------------------------------- the HTTP routes
\* req.params.location, req.params.category
Params == { <<"d">>, <<"z">> }

\* routes/events.js: the queries of the five routes
RouteActive(st, now) ==
  Rows(st, OrderDesc({ i \in Ids(st) : st[i].event_enddate > now
                                       /\ Approved(st[i]) },
                     [i \in Ids(st) |-> i]))
RoutePast(st, now) ==
  Rows(st, Limit(OrderDesc({ i \in Ids(st) : st[i].event_enddate < now
                                             /\ Approved(st[i]) },
                           [i \in Ids(st) |-> st[i].event_enddate]),
                 QueryLimit))
RouteLocation(st, location) ==
  Rows(st, Ascending({ i \in Ids(st) :
                         ILike(Pattern(location), st[i].event_location)
                         /\ Approved(st[i]) }))
RouteCategory(st, category) ==
  Rows(st, Ascending({ i \in Ids(st) :
                         ILike(Pattern(category), st[i].event_category)
                         /\ Approved(st[i]) }))
RoutePopular(st) ==
  Rows(st, Limit(OrderDesc({ i \in Ids(st) : Approved(st[i]) },
                           [i \in Ids(st) |-> st[i].event_likes]),
                 QueryLimit))

\* routes/system.js: .select('created_at').limit(1), with no filter and no
\* order: the created_at of the first row of the table, if there is one
StatusQuery(st) == [ j \in 1..Min(1, Len(st)) |-> [ created_at |-> st[j].id ] ]

\* database.timestamp: data?.[0]?.created_at || new Date().toISOString()
StatusTimestamp(data, now) ==
  IF data # <<>> THEN data[1].created_at ELSE now

\* the answers the queries of the routes may get
RouteGateway(stores) ==
  [ active   |-> { RouteActive(st, now) : st \in stores, now \in Times },
    past     |-> { RoutePast(st, now) : st \in stores, now \in Times },
    location |-> [ location \in Params |->
                     { RouteLocation(st, location) : st \in stores } ],
    category |-> [ category \in Params |->
                     { RouteCategory(st, category) : st \in stores } ],
    popular  |-> { RoutePopular(st) : st \in stores },
    status   |-> { StatusTimestamp(StatusQuery(st), now)
                   : st \in stores, now \in Times } ]

\* res.json(data), or res.status(500).json({ error: error.message })
Respond(route, status, body, error) ==
  /\ last' = [ NoStep EXCEPT !.op = "http", !.kind = route,
                             !.status = status, !.body = body,
                             !.error = error ]
  /\ UNCHANGED <<userSessions, handlers, answered>>

Failed(route) == Respond(route, 500, <<>>, "message")

GetActive(gw) ==
  \/ \E data \in gw.active : Respond("/active", 200, data, "")
  \/ Failed("/active")
GetPast(gw) ==
  \/ \E data \in gw.past : Respond("/past", 200, data, "")
  \/ Failed("/past")
GetLocation(gw) ==
  \/ \E location \in Params :
        \E data \in gw.location[location] :
           Respond("/location", 200, data, "")
  \/ Failed("/location")
GetCategory(gw) ==
  \/ \E category \in Params :
        \E data \in gw.category[category] :
           Respond("/category", 200, data, "")
  \/ Failed("/category")
GetPopular(gw) ==
  \/ \E data \in gw.popular : Respond("/popular", 200, data, "")
  \/ Failed("/popular")

\* routes/system.js: res.json({ status: 'ok', server, database }), or
\* res.status(500).json({ status: 'error', server, database })
StatusBody(database, timestamp) ==
  << [ server |-> "running", database |-> database,
       timestamp |-> timestamp ] >>
GetStatus(gw) ==
  \/ \E timestamp \in gw.status :
        Respond("/status", 200, StatusBody("connected", timestamp), "")
  \/ Respond("/status", 500, StatusBody("error", 0), "message")

ListRoutes == RouteGateway(ListStores)

\* ------------------------------------------------- the other specifications
\* every message and every button, and the handlers they start
Receive(H, C) ==
  \/ \E c \in C, text \in Texts : ReceiveMessage(H, c, text)
  \/ \E c \in C, action \in Actions : ReceiveCallback(H, c, action)

Resume(H, gw) ==
  \E h \in H :
     \/ TextStep(h, gw)
     \/ CallbackStep(h)
     \/ HelperStep(h, gw)
     \/ StartStep(h)
     \/ AboutStep(h)
     \/ AskStep(h, gw)

\* no chat handler is suspended
Quiet == \A h \in Slots : handlers[h].kind = "idle"

\* The list operations, one at a time: every command and button of a chat,
\* and every route while no chat handler is suspended, over the tables
\* ListStores.
ListNext ==
  \/ Receive({1}, {101}) /\ UNCHANGED http
  \/ Resume({1}, ListGateway) /\ UNCHANGED http
  \/ Quiet /\ GetActive(ListRoutes) /\ UNCHANGED http
  \/ Quiet /\ GetPast(ListRoutes) /\ UNCHANGED http
  \/ Quiet /\ GetLocation(ListRoutes) /\ UNCHANGED http
  \/ Quiet /\ GetCategory(ListRoutes) /\ UNCHANGED http
  \/ Quiet /\ GetPopular(ListRoutes) /\ UNCHANGED http

ListSpec == Init /\ [][ListNext]_vars

\* The replies: every command and button from every chat, where every
\* external call is answered in the end (it succeeds or it fails).
ReplyResume == Resume({1}, ChatGateway) /\ UNCHANGED http

ReplyNext == (Receive({1}, Chats) /\ UNCHANGED http) \/ ReplyResume

FairSpec == Init /\ [][ReplyNext]_vars /\ WF_vars(ReplyResume)

\* The commands and the searches of one chat: every text, and the two
\* buttons that start a search, with up to MaxHandlers handlers suspended.
CommandNext ==
  \/ /\ \E text \in Texts : ReceiveMessage(Slots, 101, text)
     /\ UNCHANGED http
  \/ /\ \E action \in SearchActions : ReceiveCallback(Slots, 101, action)
     /\ UNCHANGED http
  \/ Resume(Slots, ChatGateway) /\ UNCHANGED http

CommandSpec == Init /\ [][CommandNext]_vars

\* ------------------------------------------------------ the request throttle
\* keyGenerator: req.body?.message?.chat?.id || req.ip (chat = 0: the body
\* names no chat)
KeyOf(chat, ip) == IF chat # 0 THEN chat ELSE ip

Now == clock * TickMs

\* express-rate-limit counts the request: the first hit of a key opens its
\* window of windowMs, at whose end the count starts again
Hit(k, t) ==
  IF limiter[k].hits = 0 \/ limiter[k].resetTime <= t
  THEN [ hits |-> 1, resetTime |-> t + windowMs ]
  ELSE [ hits |-> Min(limiter[k].hits + 1, max + 1),
         resetTime |-> limiter[k].resetTime ]

\* history: the times, of those in `times`, within the windowMs that end at t
Recent(times, t) ==
  LET kept == SelectSeq(times, LAMBDA u : u > t - windowMs)
  IN SubSeq(kept, Len(kept) - Min(Len(kept), max + 1) + 1, Len(kept))

\* the route handler mounted at path
Route(path, gw) ==
  \/ path = "/active" /\ GetActive(gw)
  \/ path = "/past" /\ GetPast(gw)
  \/ path = "/location" /\ GetLocation(gw)
  \/ path = "/category" /\ GetCategory(gw)
  \/ path = "/popular" /\ GetPopular(gw)
  \/ path = "/status" /\ GetStatus(gw)
ApiPaths == { "/active", "/past", "/location", "/category", "/popular",
              "/status" }

ApiRoutes == [ st \in ChatStores |-> RouteGateway({st}) ]

\* app.use("/api", limiter), then the routes: a request for path whose
\* throttle key is k, made while the store is reachable (up) and holds st, or
\* is not; `store` keeps whether it was
ApiRequest(k, path, up, st) ==
  /\ limiter' = [limiter EXCEPT ![k] = Hit(k, Now)]
  /\ UNCHANGED clock
  /\ IF Hit(k, Now).hits <= max
     THEN /\ served' = [served EXCEPT ![k] = Recent(Append(@, Now), Now)]
          /\ Route(path, ApiRoutes[st])
          /\ (last'.status = 200) = up
          /\ store' = [ up |-> up, rows |-> <<>> ]
     ELSE /\ UNCHANGED served
          /\ Respond(path, 429, <<>>,
                     "Too many requests, please try again tomorrow")
          /\ store' = [ up |-> up, rows |-> <<>> ]

\* app.get("/health"), outside /api
GetHealth ==
  /\ Respond("/health", 200, <<>>, "")
  /\ store' = NoStore
  /\ UNCHANGED <<limiter, clock, served>>

\* time passes
Tick ==
  /\ clock < MaxTicks
  /\ clock' = clock + 1
  /\ served' = [k \in Keys |-> Recent(served[k], (clock + 1) * TickMs)]
  /\ last' = [NoStep EXCEPT !.op = "tick"]
  /\ store' = NoStore
  /\ UNCHANGED <<userSessions, handlers, answered, limiter>>

\* The HTTP side: requests of two clients, one named by a chat id in the
\* request body, one by its address, as time passes.
ApiNext ==
  \/ \E chat \in {0, 101}, ip \in Ips, path \in ApiPaths :
        \/ \E st \in ChatStores : ApiRequest(KeyOf(chat, ip), path, TRUE, st)
        \/ ApiRequest(KeyOf(chat, ip), path, FALSE, <<>>)
  \/ GetHealth
  \/ Tick

ApiSpec == Init /\ [][ApiNext]_vars

\* Every operation of the program, one turn at a time: a message or a button
\* of any chat is received when no handler is suspended, the handlers it
\* starts run interleaved to their ends; requests are answered in between.
FrameRoutes == RouteGateway(ChatStores)

FrameNext ==
  \/ Quiet /\ Receive(Slots, Chats) /\ UNCHANGED http
  \/ Resume(Slots, ChatGateway) /\ UNCHANGED http
  \/ /\ Quiet
     /\ \E path \in ApiPaths : Route(path, FrameRoutes)
     /\ UNCHANGED http
  \/ Quiet /\ GetHealth

FrameSpec == Init /\ [][FrameNext]_vars

\* The list operations with the table in sight: as ListSpec, and each query
\* is answered from one table of ListStores, which `store` keeps for the step.
TableRoutes == [ st \in ListStores |-> RouteGateway({st}) ]
TableGateway == [ st \in ListStores |-> Gateway({st}) ]

QueryPcs == { "t_query", "l_query", "a_query" }
ApologyPcs == { "t_apology", "l_apology", "a_apology", "c_apology" }

\* the step was a request answered from table st, or failed by the store
RouteReads(st) ==
  /\ store' = [ up |-> last'.status = 200, rows |-> st ]
  /\ UNCHANGED <<limiter, clock, served>>

\* the step resumed handler h on the answer of its query, from table st
HandlerReads(h, st) ==
  /\ store' = [ up |-> handlers'[h].pc \notin ApologyPcs, rows |-> st ]
  /\ UNCHANGED <<limiter, clock, served>>

NoRead == store' = NoStore /\ UNCHANGED <<limiter, clock, served>>

\* A request is answered from the table alone and leaves nothing behind but
\* its response: requests are taken one by one, each from a state that the
\* chat has reached.
Fresh == Quiet /\ last.op # "http"

TableNext ==
  \/ Receive({1}, {101}) /\ NoRead
  \/ /\ handlers[1].pc \notin QueryPcs
     /\ Resume({1}, ListGateway) /\ NoRead
  \/ /\ handlers[1].pc \in QueryPcs
     /\ \E st \in ListStores :
           Resume({1}, TableGateway[st]) /\ HandlerReads(1, st)
  \/ Fresh /\ \E st \in ListStores :
                 GetActive(TableRoutes[st]) /\ RouteReads(st)
  \/ Fresh /\ \E st \in ListStores :
                 GetPast(TableRoutes[st]) /\ RouteReads(st)
  \/ Fresh /\ \E st \in ListStores :
                 GetLocation(TableRoutes[st]) /\ RouteReads(st)
  \/ Fresh /\ \E st \in ListStores :
                 GetCategory(TableRoutes[st]) /\ RouteReads(st)
  \/ Fresh /\ \E st \in ListStores :
                 GetPopular(TableRoutes[st]) /\ RouteReads(st)
  \/ Fresh /\ \E st \in ListStores :
                 GetStatus(TableRoutes[st]) /\ RouteReads(st)

TableSpec == Init /\ [][TableNext]_vars

\* -------------------------------------------------------------- properties
TextEnds(h) == handlers[h].kind = "text" /\ handlers'[h].kind = "idle"

Queried(r) == \E i \in 1..Len(r.log) : r.log[i].call = "query"

\* C1: when the handler of a text message that answered a search has
\* finished, having issued its store query (with rows, with none, or failed),
\* the session map holds no entry for its chat.
C1_ClearedAfterAnswer ==
  [][ \A h \in Slots :
        TextEnds(h) /\ Queried(handlers[h])
          => userSessions'[handlers[h].chat] = NoEntry ]_vars

\* C2: a run of the text handler in which an external call failed (it reached
\* the apology) ends with the entry of its chat cleared, also when the send
\* of the apology is the call that fails.
C2_ClearedOnEveryFailure ==
  last.op = "step" /\ last.kind = "text" /\ last.pc = "t_apology"
    => userSessions[last.chat] = NoEntry

\* C3: when the store query of a search fails, the entry of the chat is
\* removed before the apology is sent: once the apology has been issued, the
\* entry is gone.
C3_DeleteBeforeApology ==
  [][ \A h \in Slots :
        /\ handlers[h].kind = "text"
        /\ handlers[h].pc = "t_query"
        /\ handlers'[h].pc = "t_apology"
        => userSessions'[handlers[h].chat] = NoEntry ]_vars

\* C4: between two consecutive selections of a chat, at most one text message
\* of the chat is treated as the answer (issues a search query).
C4_ConsumedOnce == \A c \in Chats : answered[c] <= 1

\* C5: a text handler that was started before the latest selection of its
\* chat never removes the entry that selection wrote.
C5_LatestIntentWins ==
  [][ \A h \in Slots :
        TextEnds(h) /\ handlers[h].stale
          => userSessions'[handlers[h].chat] = userSessions[handlers[h].chat]
    ]_vars

\* C6: every chat has at most one pending interaction, AWAITING_LOCATION or
\* AWAITING_CATEGORY, and a selection overwrites what was pending: after
\* search_category the entry is AWAITING_CATEGORY (after search_location,
\* AWAITING_LOCATION), whatever was pending before.
C6_OnePendingOverwritten ==
  /\ \A c \in Chats :
       userSessions[c] \in {NoEntry, AWAITING_LOCATION, AWAITING_CATEGORY}
  /\ last.op = "step" /\ last.kind = "callback" /\ last.to = "c_prompt"
       => userSessions[last.chat] =
            IF last.action = "search_location" THEN AWAITING_LOCATION
            ELSE AWAITING_CATEGORY

\* search_category selected while AWAITING_LOCATION was pending
C6_Witness ==
  /\ last.op = "step" /\ last.kind = "callback" /\ last.to = "c_prompt"
  /\ last.action = "search_category"
  /\ last.prev = AWAITING_LOCATION
  /\ userSessions[last.chat] = AWAITING_CATEGORY

\* C7: a free-text message from a chat with no pending entry starts no
\* handler (so no store query and no outbound message) and changes no entry
\* of the session map, of that chat or of another.
C7_IdleTextIgnored ==
  [][ /\ last'.op = "message"
      /\ last'.text \in FreeTexts
      /\ userSessions[last'.chat] = NoEntry
      => /\ handlers' = handlers
         /\ userSessions' = userSessions ]_vars

\* such a message was ignored while another chat has a search pending and a
\* handler is suspended
C7_Witness ==
  /\ last.op = "message" /\ last.to = "ignored"
  /\ \E c \in Chats : c # last.chat /\ userSessions[c] # NoEntry
  /\ \E h \in Slots : handlers[h].kind # "idle"

\* the buttons of mainMenuKeyboard
MenuActions == { "active_hackathons", "past_events", "search_location",
                 "search_category", "popular_events" }

Calls(r, call) == { i \in 1..Len(r.log) : r.log[i].call = call }

Replied(h) == Calls(handlers[h], "send") # {}

C10_OnlyApproved ==
  /\ \A h \in Slots : \A i \in 1..Len(handlers[h].events) :
        handlers[h].events[i].is_approved = TRUE
  /\ last.op = "http" =>
       \A i \in 1..Len(last.body) : last.body[i].is_approved = TRUE

\* the popular events of a table whose first row is not approved
C10_Witness ==
  \E h \in Slots :
     LET r == handlers[h] IN
     /\ r.kind = "callback" /\ r.action = "popular_events"
     /\ r.pc = "l_event" /\ r.events # <<>>
     /\ \A i \in 1..Len(r.events) : r.events[i].id # 1

\* the table without its unapproved rows, every row keeping its id
ApprovedOnly(st) == SelectSeq(st, LAMBDA row : row.is_approved = TRUE)

\* what a route may answer from the tables of gw
RouteAnswers(kind, gw) ==
  CASE kind = "/active" -> gw.active
    [] kind = "/past" -> gw.past
    [] kind = "/location" -> UNION { gw.location[p] : p \in Params }
    [] kind = "/category" -> UNION { gw.category[p] : p \in Params }
    [] kind = "/popular" -> gw.popular
    [] kind = "/status" -> { StatusBody("connected", t) : t \in gw.status }

\* what the query of handler r may get from the tables of gw
HandlerAnswers(r, gw) ==
  CASE r.kind = "text" -> IF r.state = AWAITING_LOCATION
                          THEN gw.location[r.text] ELSE gw.category[r.text]
    [] r.kind = "ask" -> gw.ask[r.query]
    [] r.action = "active_hackathons" -> gw.active
    [] r.action = "past_events" -> gw.past
    [] OTHER -> gw.popular

\* the step just taken gave a handler the answer of its query
Answered == last.op = "step" /\ last.pc \in QueryPcs /\ store.up

\* C11: unapproved rows are never surfaced: what a route responds and what a
\* chat handler fetches to send is what the same operation may yield from the
\* table without its unapproved rows; this includes /api/system/status.
C11_UnapprovedUnseen ==
  LET seen == ApprovedOnly(store.rows) IN
  /\ last.op = "http" /\ last.status = 200
       => last.body \in RouteAnswers(last.kind, RouteGateway({seen}))
  /\ Answered
       => \A h \in Slots :
             handlers[h].kind # "idle"
               => handlers[h].events
                    \in HandlerAnswers(handlers[h], Gateway({seen}))

\* rows lists every element of S, each once
Every(rows, S) ==
  /\ { rows[i] : i \in 1..Len(rows) } = S
  /\ Len(rows) = Cardinality(S)

\* the rows of the table the step just taken read
TableRows == { store.rows[i] : i \in 1..Len(store.rows) }

\* the approved rows of table st that are among kept
ApprovedWhere(st, kept) ==
  { st[i] : i \in { j \in 1..Len(st) : st[j].is_approved = TRUE /\ st[j] \in kept } }

\* C12: the past and popular operations (route and callback) deliver at most
\* 5 events; the active, by-location and by-category operations deliver
\* every approved row of the table that matches their predicate, each once,
\* however many there are.
C12_CappedAndUncapped ==
  /\ last.op = "http" /\ last.status = 200 =>
       /\ last.kind \in {"/past", "/popular"} => Len(last.body) <= QueryLimit
       /\ last.kind = "/active" =>
            \E now \in Times :
               Every(last.body, ApprovedWhere(store.rows,
                        { row \in TableRows : row.event_enddate > now }))
       /\ last.kind = "/location" =>
            \E p \in Params :
               Every(last.body, ApprovedWhere(store.rows,
                        { row \in TableRows : ILike(Pattern(p), row.event_location) }))
       /\ last.kind = "/category" =>
            \E p \in Params :
               Every(last.body, ApprovedWhere(store.rows,
                        { row \in TableRows : ILike(Pattern(p), row.event_category) }))
  /\ \A h \in Slots :
       LET r == handlers[h] IN
       /\ r.kind = "callback" /\ r.action \in {"past_events", "popular_events"}
            => /\ Len(r.events) <= QueryLimit
               /\ Cardinality({ i \in Calls(r, "send") :
                                  r.log[i].what = "event" }) <= QueryLimit
       /\ Answered /\ r.kind = "callback" /\ r.action = "active_hackathons"
            => \E now \in Times :
                  Every(r.events, ApprovedWhere(store.rows,
                           { row \in TableRows : row.event_enddate > now }))
       /\ Answered /\ r.kind = "text" /\ r.state = AWAITING_LOCATION
            => Every(r.events, ApprovedWhere(store.rows,
                  { row \in TableRows : ILike(Pattern(r.text), row.event_location) }))
       /\ Answered /\ r.kind = "text" /\ r.state = AWAITING_CATEGORY
            => Every(r.events, ApprovedWhere(store.rows,
                  { row \in TableRows : ILike(Pattern(r.text), row.event_category) }))

\* the active events of a table that holds more than 5 of them
C12_Witness ==
  /\ last.op = "http" /\ last.kind = "/active" /\ last.status = 200
  /\ Len(last.body) > QueryLimit
  /\ Every(last.body, { store.rows[i] : i \in 1..Len(store.rows) })

\* the store query of handler r failed: the call it made next is an apology
QueryFailed(r) ==
  \E j \in Calls(r, "query") :
     j < Len(r.log) /\ r.log[j + 1].what = "apology"

\* C13: when a store query fails, a chat handler sends no event block and
\* exactly one apology for that user action, and an event route responds
\* with status 500 and a body that holds the error message only.
C13_NothingRetrieved ==
  /\ \A h \in Slots :
       LET r == handlers[h]
           sends == Calls(r, "send")
       IN QueryFailed(r) =>
            /\ { i \in sends : r.log[i].what = "event" } = {}
            /\ Cardinality({ i \in sends : r.log[i].what = "apology" }) = 1
  /\ last.op = "http" /\ last.kind # "/status" /\ ~ store.up =>
       /\ last.status = 500
       /\ last.body = <<>>
       /\ last.error = "message"

\* C14: a GET /api/system/status made while the store is unreachable is
\* answered with status 500, database.status "error" and server.status
\* "running", whatever requests came before.
C14_StatusReportsOutage ==
  last.op = "http" /\ last.kind = "/status" /\ ~ store.up =>
     /\ last.status = 500
     /\ last.body = StatusBody("error", 0)

\* C15: for each throttle key, at most `max` requests of any interval of
\* windowMs reach a route handler; a rejected request makes no store query;
\* /health is never rejected.
C15_RollingBudget ==
  /\ \A k \in Keys : Len(served[k]) <= max
  /\ last.op = "http" /\ last.status = 429 => last.body = <<>>
  /\ last.op = "http" /\ last.kind = "/health" => last.status = 200

\* the ids of the rows whose event blocks handler r has sent, in order
Sent(r) ==
  LET blocks == SelectSeq(r.log,
                   LAMBDA e : e.call = "send" /\ e.what = "event")
  IN [ i \in 1..Len(blocks) |-> blocks[i].row ]

\* the calls of a callback turn are in order: the acknowledgement first, then
\* the status line or the prompt, then the query, then the event blocks
TurnInOrder(r) ==
  /\ r.log[1].call = "ack"
  /\ \A j \in Calls(r, "query") :
        j = 3 /\ r.log[2].call = "send" /\ r.log[2].what = "status"
  /\ \A i \in Calls(r, "send") :
        /\ r.log[i].what = "prompt" => i = 2
        /\ r.log[i].what = "event"
             => /\ \E j \in Calls(r, "query") : j < i
                /\ \E j \in Calls(r, "send") :
                      j < i /\ r.log[j].what = "status"

\* C16: in a callback turn the callback is acknowledged first, then the
\* status line (or the prompt) is sent, then the store is queried, and the
\* event blocks follow the answer one by one in the order of the rows the
\* store returned; no event block precedes the status line.
C16_TurnOrder ==
  [][ \A h \in Slots :
        LET r == handlers[h]
            r2 == handlers'[h]
        IN r2.kind = "callback" =>
             /\ TurnInOrder(r2)
             /\ r.pc = "l_query" /\ r2.pc = "l_event"
                  => /\ r2.events
                          \in HandlerAnswers(r2, Gateway({store'.rows}))
                     /\ Sent(r2) = << r2.events[1].id >>
             /\ r.pc = "l_event" /\ r2.pc = "l_event" /\ r2 # r
                  => /\ r2.events = Tail(r.events)
                     /\ Sent(r2) = Append(Sent(r), r.events[2].id) ]_vars

\* the second block of a list that the store did not return in table order
C16_Witness ==
  \E h \in Slots :
     LET r == handlers[h] IN
     /\ r.kind = "callback" /\ r.pc = "l_event"
     /\ Len(Sent(r)) = 2 /\ Sent(r)[1] > Sent(r)[2]
     /\ r.events[1].id = Sent(r)[2]

\* C17: a text message received while a search is pending is taken as the
\* answer whatever it says, a /start, /about or /ask command included: the
\* text handler starts on it beside the command's own handler, its query
\* filters on the text as it is, and when the handler that queried has ended
\* the pending entry is cleared.
C17_AnyTextConsumed ==
  [][ /\ last'.op = "message" /\ userSessions[last'.chat] # NoEntry
        => /\ \E h \in Slots :
                /\ handlers[h].kind = "idle"
                /\ handlers'[h] = TextHandler(last'.chat, last'.text)
           /\ MatchesAsk(last'.text)
                => \E h \in Slots :
                      /\ handlers[h].kind = "idle"
                      /\ handlers'[h] = AskHandler(last'.chat, last'.text)
      /\ \A h \in Slots :
           LET r == handlers[h]
               r2 == handlers'[h]
           IN /\ r2.kind = "text" =>
                   /\ Cardinality(Calls(r2, "query")) <= 1
                   /\ \A j \in Calls(r2, "query") :
                         /\ r2.log[j].arg = r2.text
                         /\ r2.log[j].what = IF r2.state = AWAITING_LOCATION
                                             THEN "location" ELSE "category"
              /\ TextEnds(h) /\ r.text \notin FreeTexts /\ Queried(r)
                   => userSessions'[r.chat] = NoEntry ]_vars

\* C18: an entry of the session map changes only by a step of a
\* search_location or search_category callback of that chat, which sets it,
\* or by a step of a text handler of that chat, which deletes it; the command
\* handlers, the other callbacks and the routes change no entry.
C18_SessionFrame ==
  [][ \A c \in Chats :
        userSessions'[c] # userSessions[c] =>
           /\ last'.op = "step" /\ last'.chat = c
           /\ \/ /\ last'.kind = "callback"
                 /\ last'.action = "search_location"
                 /\ userSessions'[c] = AWAITING_LOCATION
              \/ /\ last'.kind = "callback"
                 /\ last'.action = "search_category"
                 /\ userSessions'[c] = AWAITING_CATEGORY
              \/ /\ last'.kind = "text"
                 /\ userSessions'[c] = NoEntry ]_vars

\* a text handler has deleted the entry of its chat while another chat has one
C18_Witness ==
  /\ last.op = "step" /\ last.kind = "text" /\ last.prev # NoEntry
  /\ userSessions[last.chat] = NoEntry
  /\ \E c \in Chats : c # last.chat /\ userSessions[c] # NoEntry

\* C19: when the handling of a search_location or search_category callback
\* is in its error branch (the acknowledgement or the prompt failed and the
\* apology is being sent), the entry of the chat is what it was when the
\* button was pressed.
C19_ErrorBranchRestores ==
  \A h \in Slots :
     LET r == handlers[h] IN
     r.kind = "callback" /\ r.action \in SearchActions /\ r.pc = "c_apology"
       => userSessions[r.chat] = r.state

====
